---- MODULE Spec2Model ----
(***************************************************************************)
(* Model of the signature payload codec of prorokusa/botdogsig:            *)
(* encodeSignatureBinary (the stroke quantizer and its transport           *)
(* encodings) and prepareSignaturePayload (the negotiation loop), as       *)
(* written in src/types.ts lines 177-266.                                  *)
(*                                                                         *)
(* Numbers.  A coordinate enters the code only through the quotient        *)
(* point.x / canvasWidth, so coordinates and surface sizes are integers in *)
(* a common unit and the quotient is the exact rational.  Strings are      *)
(* sequences of one-character strings; byte arrays are sequences of        *)
(* 0..255.  The fields Point.time and SignatureSegment.color are never     *)
(* read by the codec and are left out.                                     *)
(***************************************************************************)
EXTENDS Integers, Sequences, FiniteSets, TLC

(***************************************************************************)
(* Program constants, src/types.ts lines 180-185.                          *)
(***************************************************************************)
MAX_COORD == 65534
SENTINEL == 65535
DEFAULT_MAX_PAYLOAD_CHARS == 4096 - 256
MIN_POINTS == 40
DEFAULT_POINTS == 320
\* POINTS_REDUCTION_FACTOR = 0.75, kept as the exact fraction 3/4
POINTS_REDUCTION_NUM == 3
POINTS_REDUCTION_DEN == 4

(***************************************************************************)
(* Bounds of the model.                                                    *)
(***************************************************************************)
\* most segments in a StrokeSet
MaxSegments == 2
\* points of the longest segment
MaxPoints == 60
\* cap on the calls of encodeSignatureBinary recorded in one negotiation
MaxCalls == 12
MaxTarget == 8
ManySegments == 60

\* JavaScript null, where an object is expected
null == [null |-> TRUE]

\* JavaScript null, where a string is expected: no string of the model has a
\* character of four letters
nullString == <<"null">>

\* Pako.deflate throwing, where a byte array is expected
thrown == <<-1>>

Max(a, b) == IF a >= b THEN a ELSE b
Min(a, b) == IF a <= b THEN a ELSE b

\* Math.ceil(a / b) for a >= 0, b > 0
Ceil(a, b) == (a + b - 1) \div b

\* Math.floor(a / b) for b > 0
Floor(a, b) == a \div b

\* Math.round(p / q) for q > 0: the nearest integer, halves towards +infinity.
\* On the surfaces of the model the only quotients c / dim whose product with
\* MAX_COORD ends in .5 are multiples of 1/4, which a double holds exactly,
\* so the double computation of lines 202-203 rounds as the exact one does.
Round(p, q) == (2 * p + q) \div (2 * q)

(***************************************************************************)
(* encodeSignatureBinary, the quantizer part (lines 193-211).              *)
(***************************************************************************)
\* line 194: data.reduce((sum, segment) => sum + segment.points.length, 0)
\* (the sum is taken over the two halves of data, which keeps the evaluation
\* shallow for a StrokeSet of many segments)
RECURSIVE totalPoints(_)
totalPoints(data) ==
    IF data = <<>> THEN 0
    ELSE IF Len(data) = 1 THEN Len(Head(data).points)
    ELSE totalPoints(SubSeq(data, 1, Len(data) \div 2))
           + totalPoints(SubSeq(data, Len(data) \div 2 + 1, Len(data)))

\* Step dividing maxPoints by totalPoints
StepSwapped(data, maxPoints) ==
    Max(1, Ceil(maxPoints, Max(1, totalPoints(data))))

\* Step computed from the first segment's points, not from all points
StepFirstSegment(data, maxPoints) ==
    IF data = <<>> THEN 1 ELSE Max(1, Ceil(Len(Head(data).points), maxPoints))

\* Step rounding the quotient down
StepFloor(data, maxPoints) == Max(1, Floor(totalPoints(data), maxPoints))

\* line 195: Math.max(1, Math.ceil(totalPoints / maxPoints))
Step(data, maxPoints) == Max(1, Ceil(totalPoints(data), maxPoints))

\* keepPoint without the test for the last index
keepPointNoLast(index, length, step) ==
    index = 0 \/ index % step = 0

\* line 199, index 0-based, length = segment.points.length
keepPoint(index, length, step) ==
    index = 0 \/ index = length - 1 \/ index % step = 0

\* Quantize clamping to 65535 instead of MAX_COORD
QuantizeClampSentinel(c, dim) == Min(SENTINEL, Max(0, Round(c * MAX_COORD, dim)))

\* Quantize scaling to SENTINEL instead of MAX_COORD
QuantizeScaleSentinel(c, dim) == Min(MAX_COORD, Max(0, Round(c * SENTINEL, dim)))

\* Quantize without the clamp at 0
QuantizeNoLowerClamp(c, dim) == Min(MAX_COORD, Round(c * MAX_COORD, dim))

\* lines 202-203: Math.min(MAX_COORD, Math.max(0, Math.round((c / dim) * MAX_COORD)))
Quantize(c, dim) == Min(MAX_COORD, Max(0, Round(c * MAX_COORD, dim)))

\* the 0-based indices of a segment's points that pass line 200, in order
KeptIndices(segment, step) ==
    LET n == Len(segment.points)
    IN  SelectSeq([i \in 1..n |-> i - 1], LAMBDA index : keepPoint(index, n, step))

\* lines 202-204: the x and y pushed for the kept points of a segment
Pushed(kept, segment, canvasWidth, canvasHeight) ==
    [k \in 1..(2 * Len(kept)) |->
        LET point == segment.points[kept[(k + 1) \div 2] + 1]
        IN  IF k % 2 = 1 THEN Quantize(point.x, canvasWidth)
                         ELSE Quantize(point.y, canvasHeight)]

\* SegmentValues pushing the terminator pair before the points
SegmentValuesTerminatorFirst(segment, step, canvasWidth, canvasHeight) ==
    <<SENTINEL, SENTINEL>>
      \o (CHOOSE pushed \in { Pushed(kept, segment, canvasWidth, canvasHeight)
                                : kept \in {KeptIndices(segment, step)} } : TRUE)

\* lines 198-206: what one segment pushes onto values (the kept indices are
\* bound once, as the single element of a set)
SegmentValues(segment, step, canvasWidth, canvasHeight) ==
    (CHOOSE pushed \in { Pushed(kept, segment, canvasWidth, canvasHeight)
                           : kept \in {KeptIndices(segment, step)} } : TRUE)
      \o <<SENTINEL, SENTINEL>>

\* lines 197-207: data.forEach(...): what the segments push, in their order
\* (concatenated by halves, as for totalPoints)
RECURSIVE ValuesFrom(_, _, _, _)
ValuesFrom(data, step, canvasWidth, canvasHeight) ==
    IF data = <<>> THEN <<>>
    ELSE IF Len(data) = 1
    THEN SegmentValues(Head(data), step, canvasWidth, canvasHeight)
    ELSE ValuesFrom(SubSeq(data, 1, Len(data) \div 2),
                    step, canvasWidth, canvasHeight)
           \o ValuesFrom(SubSeq(data, Len(data) \div 2 + 1, Len(data)),
                         step, canvasWidth, canvasHeight)

\* the local `values` after the forEach of lines 197-207
Values(data, canvasWidth, canvasHeight, maxPoints) ==
    ValuesFrom(data, Step(data, maxPoints), canvasWidth, canvasHeight)

\* line 209: the record is exactly one terminator pair
IsEmptyRecord(vals) ==
    Len(vals) = 2 /\ vals[1] = SENTINEL /\ vals[2] = SENTINEL

(***************************************************************************)
(* encodeSignatureBinary, packing and transport encoding (lines 213-237).  *)
(***************************************************************************)
\* Bytes with the low byte first
BytesLittleEndian(vals) ==
    [b \in 1..(2 * Len(vals)) |->
        LET value == vals[(b + 1) \div 2]
        IN  IF b % 2 = 1 THEN value % 256 ELSE (value \div 256) % 256]

\* lines 213-217: two bytes per value, high byte first
Bytes(vals) ==
    [b \in 1..(2 * Len(vals)) |->
        LET value == vals[(b + 1) \div 2]
        IN  IF b % 2 = 1 THEN (value \div 256) % 256 ELSE value % 256]

Base64Alphabet ==
    << "A","B","C","D","E","F","G","H","I","J","K","L","M",
       "N","O","P","Q","R","S","T","U","V","W","X","Y","Z",
       "a","b","c","d","e","f","g","h","i","j","k","l","m",
       "n","o","p","q","r","s","t","u","v","w","x","y","z",
       "0","1","2","3","4","5","6","7","8","9","+","/" >>

\* btoa of the binary string built from bytes (lines 219-223, 228-232)
btoa(bytes) ==
    LET n == Len(bytes)
        at(i) == IF i <= n THEN bytes[i] ELSE 0
    IN  [k \in 1..(4 * Ceil(n, 3)) |->
           LET g == (k - 1) \div 4
               j == (k - 1) % 4
               b0 == at(3 * g + 1)
               b1 == at(3 * g + 2)
               b2 == at(3 * g + 3)
           IN  CASE j = 0 -> Base64Alphabet[(b0 \div 4) + 1]
                 [] j = 1 -> Base64Alphabet[(b0 % 4) * 16 + (b1 \div 16) + 1]
                 [] j = 2 -> IF 3 * g + 2 > n THEN "="
                             ELSE Base64Alphabet[(b1 % 16) * 4 + (b2 \div 64) + 1]
                 [] j = 3 -> IF 3 * g + 3 > n THEN "="
                             ELSE Base64Alphabet[(b2 % 64) + 1]]

(***************************************************************************)
(* Pako.deflate(bytes, {level: 9}) (line 227) is a library call.  It either *)
(* throws or yields a zlib stream: two header bytes, at least one deflate   *)
(* block and a four-byte checksum, hence at least 8 bytes, and at most the  *)
(* stored form of n + 11 bytes.  The model lets it produce a stream of any  *)
(* of a few lengths in that range; the bytes after the header stand for the *)
(* compressed data, which the codec never inspects.                         *)
(***************************************************************************)
PakoSizes(n) == {8, 8 + n \div 2, n + 11}

PakoStream(bytes, m) ==
    <<120, 218>> \o [i \in 1..(m - 2) |-> IF bytes = <<>> THEN 0
                                           ELSE bytes[((i - 1) % Len(bytes)) + 1]]

\* A compressor that is a function of its input behaves in one of these ways
\* on every call ("large" throws for an input of more than PakoLarge bytes and
\* halves a shorter one); "any" is a compressor whose outcome may differ from
\* one call to the next.
PakoBehaviours == {"throws", "smallest", "half", "stored", "large"}

PakoLarge == 200

PakoSize(n, behaviour) ==
    CASE behaviour = "smallest" -> 8
      [] behaviour = "half" -> 8 + n \div 2
      [] behaviour = "stored" -> n + 11

\* PakoDeflate whose outcome is not determined by its input
PakoDeflateFlaky(bytes, behaviour) ==
    {thrown} \cup {PakoStream(bytes, m) : m \in PakoSizes(Len(bytes))}

\* the outcomes of the call of line 227
PakoDeflate(bytes, behaviour) ==
    CASE behaviour = "any" ->
           {thrown} \cup {PakoStream(bytes, m) : m \in PakoSizes(Len(bytes))}
      [] behaviour = "throws" -> {thrown}
      [] behaviour = "large" ->
           IF Len(bytes) > PakoLarge THEN {thrown}
           ELSE {PakoStream(bytes, PakoSize(Len(bytes), "half"))}
      [] OTHER -> {PakoStream(bytes, PakoSize(Len(bytes), behaviour))}

\* lines 219-237: the values encodeSignatureBinary can return for a record
\* that is not empty, given its packed bytes
Encodings(packed, behaviour) ==
    { [rawBase64 |-> btoa(packed),
       compressedBase64 |-> IF compressed = thrown THEN nullString
                            ELSE btoa(compressed)]
      : compressed \in PakoDeflate(packed, behaviour) }

(***************************************************************************)
(* prepareSignaturePayload (lines 240-266).                                *)
(***************************************************************************)
\* JavaScript truthiness of a string | null: null and "" are falsy
Truthy(s) == s # nullString /\ Len(s) > 0

\* CompressedFits measuring against the default budget, not the caller's
CompressedFitsDefaultBudget(enc, maxPayloadChars) ==
    Truthy(enc.compressedBase64)
      /\ Len(enc.compressedBase64) <= DEFAULT_MAX_PAYLOAD_CHARS

\* line 252
CompressedFits(enc, maxPayloadChars) ==
    Truthy(enc.compressedBase64) /\ Len(enc.compressedBase64) <= maxPayloadChars

\* line 256
RawFits(enc, maxPayloadChars) ==
    Truthy(enc.rawBase64) /\ Len(enc.rawBase64) <= maxPayloadChars

\* NextLimit with a reduction factor of 0.9
NextLimitSlow(limit) == Max(MIN_POINTS, Floor(limit * 9, 10))

\* NextLimit dividing by the reduction factor instead of multiplying
NextLimitDivides(limit) ==
    Max(MIN_POINTS, Floor(limit * POINTS_REDUCTION_DEN, POINTS_REDUCTION_NUM))

\* line 260: Math.max(MIN_POINTS, Math.floor(pointsLimit * POINTS_REDUCTION_FACTOR))
NextLimit(limit) ==
    Max(MIN_POINTS, Floor(limit * POINTS_REDUCTION_NUM, POINTS_REDUCTION_DEN))

\* line 248: the loop condition
LoopCondition(limit) == limit >= MIN_POINTS

\* AtFloor never leaving the loop
AtFloorNever(nextLimit, limit) == FALSE

\* line 261: the loop is left when shrinking no longer changes the limit
AtFloor(nextLimit, limit) == nextLimit = limit

(***************************************************************************)
(* Inputs.                                                                 *)
(***************************************************************************)
\* a stroke of n points leaving start along a straight line; long strokes
\* run off the right and bottom edges of the smaller surface
Stroke(n, start) ==
    [points |-> [i \in 1..n |-> [x |-> start.x + 3 * (i - 1),
                                 y |-> start.y + 2 * (i - 1)]]]

Start == [x |-> -4, y |-> -3]

SegmentLengths == {0, 1, 4, MaxPoints}

Segments == { Stroke(n, Start) : n \in SegmentLengths }

\* the StrokeSets of at most MaxSegments segments; from the third segment
\* on, a segment repeats the one two places before it
StrokeSets ==
    { strokes \in UNION { [1..k -> Segments] : k \in 0..MaxSegments } :
        \A s \in 3..Len(strokes) : strokes[s] = strokes[s - 2] }

Surfaces == { [width |-> 100, height |-> 50], [width |-> 300, height |-> 150] }

Budgets == {11, 12, 200, DEFAULT_MAX_PAYLOAD_CHARS}

(***************************************************************************)
(* State: the arguments and locals of one call of prepareSignaturePayload. *)
(***************************************************************************)
VARIABLES
    data,             \* argument: SignatureSegment[]
    width,            \* argument
    height,           \* argument
    maxPayloadChars,  \* argument
    pointsLimit,      \* local of prepareSignaturePayload (line 246)
    encoded,          \* local: what encodeSignatureBinary returned (line 249)
    values,           \* local `values` of the last encodeSignatureBinary call
    bytes,            \* local `bytes` of the last encodeSignatureBinary call
    result,           \* the value returned, once pc = "done"
    calls,            \* history: the maxPoints of every encodeSignatureBinary call
    pc,               \* "loop" (line 248), "encoded" (line 250), "done"
    pako,             \* how Pako.deflate behaves: "any" or one of PakoBehaviours
    suspended,        \* the parameters and locals of another call of
                      \* prepareSignaturePayload that is not running now; null
                      \* when there is no other call
    consentChecked,   \* App state field (App.tsx line 62)
    hasSigned,        \* App state field (App.tsx line 61)
    isSubmitting,     \* App state field (App.tsx line 63)
    tg,               \* whether window.Telegram?.WebApp is there (App.tsx line 51)
    rawData,          \* local of handleSubmit (App.tsx line 136)
    canvasMeta,       \* local of handleSubmit (App.tsx line 137); null when
                      \* padRef.current is, and rawData is undefined then too
    baseBytes,        \* local of handleSubmit (App.tsx line 154)
    availableSignatureChars,  \* local of handleSubmit (App.tsx line 155)
    signaturePayload, \* local of handleSubmit (App.tsx lines 157, 191)
    payloadBytes,     \* local of handleSubmit (App.tsx lines 183, 206)
    sent,             \* history: the byte length of every message given to tg.sendData
    popup,            \* the line of the last safeShowPopup call of handleSubmit; 0 before any
    at                \* where handleSubmit is: "idle" when it is not running

\* the App's state fields, the host, and the locals and outputs of handleSubmit
submit == <<consentChecked, hasSigned, isSubmitting, tg, rawData, canvasMeta,
            baseBytes, availableSignatureChars, signaturePayload, payloadBytes,
            sent, popup, at>>

vars == <<data, width, height, maxPayloadChars, pointsLimit, encoded, values,
          bytes, result, calls, pc, pako, suspended, submit>>

\* what no step of a call touches: the library, the other call and the caller
outside == <<pako, suspended, submit>>

\* the locals of handleSubmit when it is not running
NoLocals ==
    /\ rawData = <<>>
    /\ canvasMeta = null
    /\ baseBytes = 0
    /\ availableSignatureChars = 0
    /\ signaturePayload = null
    /\ payloadBytes = 0

\* the App as constructed (App.tsx lines 53-65), handleSubmit never called
Mounted ==
    /\ consentChecked = FALSE
    /\ hasSigned = FALSE
    /\ isSubmitting = FALSE
    /\ NoLocals
    /\ sent = <<>>
    /\ popup = 0
    /\ at = "idle"

\* prepareSignaturePayload called directly, with no App around it
Standalone == Mounted /\ tg = FALSE

args == <<data, width, height, maxPayloadChars>>

\* the call has been entered and line 246 has run
Init ==
    /\ data \in StrokeSets
    /\ \E surface \in Surfaces : width = surface.width /\ height = surface.height
    /\ maxPayloadChars \in Budgets
    /\ pointsLimit = DEFAULT_POINTS
    /\ encoded = null
    /\ values = <<>>
    /\ bytes = <<>>
    /\ result = null
    /\ calls = <<>>
    /\ pc = IF LoopCondition(DEFAULT_POINTS) THEN "loop" ELSE "done"
    /\ pako = "any"
    /\ suspended = null
    /\ Standalone

\* line 249: the call encodeSignatureBinary(data, width, height, pointsLimit),
\* lines 187-238
Encode ==
    /\ pc = "loop"
    /\ Len(calls) < MaxCalls
    /\ values' = Values(data, width, height, pointsLimit)
    /\ IF IsEmptyRecord(values')
       THEN bytes' = bytes /\ encoded' = null
       ELSE bytes' = Bytes(values') /\ encoded' \in Encodings(bytes', pako)
    /\ calls' = Append(calls, pointsLimit)
    /\ pc' = "encoded"
    /\ UNCHANGED <<args, outside, pointsLimit, result>>

\* ReturnEmpty treating EMPTY as a size failure: shrink and try again
ReturnEmptyRetry ==
    /\ pc = "encoded"
    /\ encoded = null
    /\ pointsLimit' = NextLimit(pointsLimit)
    /\ pc' = IF AtFloor(NextLimit(pointsLimit), pointsLimit) THEN "done" ELSE "loop"
    /\ result' = null
    /\ UNCHANGED <<args, outside, encoded, values, bytes, calls>>

\* line 250
ReturnEmpty ==
    /\ pc = "encoded"
    /\ encoded = null
    /\ result' = null
    /\ pc' = "done"
    /\ UNCHANGED <<args, outside, pointsLimit, encoded, values, bytes, calls>>

\* ReturnCompressed leaving out the compression field
ReturnCompressedUntagged ==
    /\ pc = "encoded"
    /\ encoded # null
    /\ CompressedFits(encoded, maxPayloadChars)
    /\ result' = [base64 |-> encoded.compressedBase64, type |-> "compressed"]
    /\ pc' = "done"
    /\ UNCHANGED <<args, outside, pointsLimit, encoded, values, bytes, calls>>

\* lines 252-254
ReturnCompressed ==
    /\ pc = "encoded"
    /\ encoded # null
    /\ CompressedFits(encoded, maxPayloadChars)
    /\ result' = [base64 |-> encoded.compressedBase64, type |-> "compressed",
                  compression |-> "deflate"]
    /\ pc' = "done"
    /\ UNCHANGED <<args, outside, pointsLimit, encoded, values, bytes, calls>>

\* ReturnBinary tested before the compressed encoding
ReturnBinaryFirst ==
    /\ pc = "encoded"
    /\ encoded # null
    /\ RawFits(encoded, maxPayloadChars)
    /\ result' = [base64 |-> encoded.rawBase64, type |-> "binary"]
    /\ pc' = "done"
    /\ UNCHANGED <<args, outside, pointsLimit, encoded, values, bytes, calls>>

\* lines 256-258
ReturnBinary ==
    /\ pc = "encoded"
    /\ encoded # null
    /\ ~CompressedFits(encoded, maxPayloadChars)
    /\ RawFits(encoded, maxPayloadChars)
    /\ result' = [base64 |-> encoded.rawBase64, type |-> "binary"]
    /\ pc' = "done"
    /\ UNCHANGED <<args, outside, pointsLimit, encoded, values, bytes, calls>>

\* Shrink taken whether or not an encoding fits
ShrinkEager ==
    /\ pc = "encoded"
    /\ encoded # null
    /\ ~AtFloor(NextLimit(pointsLimit), pointsLimit)
    /\ pointsLimit' = NextLimit(pointsLimit)
    /\ pc' = IF LoopCondition(NextLimit(pointsLimit)) THEN "loop" ELSE "done"
    /\ result' = null
    /\ UNCHANGED <<args, outside, encoded, values, bytes, calls>>

\* lines 260-262 and the loop test of line 248
Shrink ==
    /\ pc = "encoded"
    /\ encoded # null
    /\ ~CompressedFits(encoded, maxPayloadChars)
    /\ ~RawFits(encoded, maxPayloadChars)
    /\ ~AtFloor(NextLimit(pointsLimit), pointsLimit)
    /\ pointsLimit' = NextLimit(pointsLimit)
    /\ pc' = IF LoopCondition(NextLimit(pointsLimit)) THEN "loop" ELSE "done"
    /\ result' = null
    /\ UNCHANGED <<args, outside, encoded, values, bytes, calls>>

\* line 261 (break) and line 265
GiveUp ==
    /\ pc = "encoded"
    /\ encoded # null
    /\ ~CompressedFits(encoded, maxPayloadChars)
    /\ ~RawFits(encoded, maxPayloadChars)
    /\ AtFloor(NextLimit(pointsLimit), pointsLimit)
    /\ result' = null
    /\ pc' = "done"
    /\ UNCHANGED <<args, outside, pointsLimit, encoded, values, bytes, calls>>

Next ==
    \/ Encode
    \/ ReturnEmpty
    \/ ReturnCompressed
    \/ ReturnBinary
    \/ Shrink
    \/ GiveUp

Spec == Init /\ [][Next]_vars

\* the call is synchronous: it runs every step it can take
FairSpec == Spec /\ WF_vars(Next)

(***************************************************************************)
(* The same call with a compressor that is a function of its input, as     *)
(* Pako.deflate is: it behaves the same way on every attempt.              *)
(***************************************************************************)
PureInit ==
    /\ data \in StrokeSets
    /\ \E surface \in Surfaces : width = surface.width /\ height = surface.height
    /\ maxPayloadChars \in Budgets
    /\ pointsLimit = DEFAULT_POINTS
    /\ encoded = null
    /\ values = <<>>
    /\ bytes = <<>>
    /\ result = null
    /\ calls = <<>>
    /\ pc = IF LoopCondition(DEFAULT_POINTS) THEN "loop" ELSE "done"
    /\ pako \in PakoBehaviours
    /\ suspended = null
    /\ Standalone

PureSpec == PureInit /\ [][Next]_vars

(***************************************************************************)
(* prepareSignaturePayload as a function of its arguments and of the       *)
(* compressor: the value lines 246-265 compute when nothing else runs.     *)
(***************************************************************************)
RECURSIVE PayloadFrom(_, _, _, _, _, _)
PayloadFrom(d, w, h, budget, behaviour, limit) ==
    IF ~LoopCondition(limit) THEN null
    ELSE LET vals == Values(d, w, h, limit)
         IN  IF IsEmptyRecord(vals) THEN null
             ELSE LET enc == CHOOSE e \in Encodings(Bytes(vals), behaviour) : TRUE
                      nextLimit == NextLimit(limit)
                  IN  IF CompressedFits(enc, budget)
                      THEN [base64 |-> enc.compressedBase64,
                            type |-> "compressed", compression |-> "deflate"]
                      ELSE IF RawFits(enc, budget)
                      THEN [base64 |-> enc.rawBase64, type |-> "binary"]
                      ELSE IF AtFloor(nextLimit, limit) THEN null
                      ELSE PayloadFrom(d, w, h, budget, behaviour, nextLimit)

prepareSignaturePayload(d, w, h, budget, behaviour) ==
    PayloadFrom(d, w, h, budget, behaviour, DEFAULT_POINTS)

(***************************************************************************)
(* Two calls of prepareSignaturePayload.  Every variable of the function   *)
(* is a parameter or is declared inside it (lines 193, 213, 246, 249), so   *)
(* each call has its own; the module holds constants only (lines 180-185).  *)
(* One call runs, the other is suspended, and Switch hands the processor    *)
(* from one to the other between any two steps.                             *)
(***************************************************************************)
\* the parameters and locals of the running call
Activation ==
    [data |-> data, width |-> width, height |-> height,
     maxPayloadChars |-> maxPayloadChars, pointsLimit |-> pointsLimit,
     encoded |-> encoded, values |-> values, bytes |-> bytes,
     result |-> result, calls |-> calls, pc |-> pc]

\* a call that has been entered: lines 240-246
Entered(d, w, h, budget) ==
    [data |-> d, width |-> w, height |-> h, maxPayloadChars |-> budget,
     pointsLimit |-> DEFAULT_POINTS, encoded |-> null, values |-> <<>>,
     bytes |-> <<>>, result |-> null, calls |-> <<>>,
     pc |-> IF LoopCondition(DEFAULT_POINTS) THEN "loop" ELSE "done"]

ConcurrentStrokeSets ==
    { <<Stroke(0, Start)>>,
      <<Stroke(MaxPoints, Start), Stroke(4, Start)>>,
      <<Stroke(MaxPoints, Start), Stroke(MaxPoints, Start)>> }

ConcurrentBudgets == {11, 200}

ConcurrentCalls ==
    { Entered(d, 100, 50, budget) :
        d \in ConcurrentStrokeSets, budget \in ConcurrentBudgets }

ConcurrentInit ==
    /\ \E call \in ConcurrentCalls :
          /\ data = call.data
          /\ width = call.width
          /\ height = call.height
          /\ maxPayloadChars = call.maxPayloadChars
          /\ pointsLimit = call.pointsLimit
          /\ encoded = call.encoded
          /\ values = call.values
          /\ bytes = call.bytes
          /\ result = call.result
          /\ calls = call.calls
          /\ pc = call.pc
    /\ suspended \in ConcurrentCalls
    /\ pako \in PakoBehaviours
    /\ Standalone

\* Switch with pointsLimit declared at module level, shared by the calls
SwitchSharedLimit ==
    /\ suspended # null
    /\ suspended.pc # "done"
    /\ data' = suspended.data
    /\ width' = suspended.width
    /\ height' = suspended.height
    /\ maxPayloadChars' = suspended.maxPayloadChars
    /\ encoded' = suspended.encoded
    /\ values' = suspended.values
    /\ bytes' = suspended.bytes
    /\ result' = suspended.result
    /\ calls' = suspended.calls
    /\ pc' = suspended.pc
    /\ suspended' = Activation
    /\ UNCHANGED <<pako, submit, pointsLimit>>

\* the other call, which still has steps to take, runs next
Switch ==
    /\ suspended # null
    /\ suspended.pc # "done"
    /\ data' = suspended.data
    /\ width' = suspended.width
    /\ height' = suspended.height
    /\ maxPayloadChars' = suspended.maxPayloadChars
    /\ pointsLimit' = suspended.pointsLimit
    /\ encoded' = suspended.encoded
    /\ values' = suspended.values
    /\ bytes' = suspended.bytes
    /\ result' = suspended.result
    /\ calls' = suspended.calls
    /\ pc' = suspended.pc
    /\ suspended' = Activation
    /\ UNCHANGED <<pako, submit>>

ConcurrentNext ==
    \/ Encode
    \/ ReturnEmpty
    \/ ReturnCompressed
    \/ ReturnBinary
    \/ Shrink
    \/ GiveUp
    \/ Switch

ConcurrentSpec == ConcurrentInit /\ [][ConcurrentNext]_vars

(***************************************************************************)
(* The fixed-budget variant of prepareSignaturePayload (lines 150-176).    *)
(* Its encodeSignatureBinary (lines 91-145) and its constants (lines       *)
(* 80-85) are the text of lines 180-238 again, so Values, Bytes, Encodings, *)
(* NextLimit, LoopCondition and AtFloor stand for both; the budget is the   *)
(* constant of line 82.                                                     *)
(***************************************************************************)
MAX_PAYLOAD_CHARS == 1800

\* line 162
FixedCompressedFits(enc) ==
    Truthy(enc.compressedBase64) /\ Len(enc.compressedBase64) <= MAX_PAYLOAD_CHARS

\* FixedRawFits measuring against the other variant's default budget
FixedRawFitsDefaultBudget(enc) ==
    Truthy(enc.rawBase64) /\ Len(enc.rawBase64) <= DEFAULT_MAX_PAYLOAD_CHARS

\* line 166
FixedRawFits(enc) ==
    Truthy(enc.rawBase64) /\ Len(enc.rawBase64) <= MAX_PAYLOAD_CHARS

\* lines 157-175
RECURSIVE FixedPayloadFrom(_, _, _, _, _)
FixedPayloadFrom(d, w, h, behaviour, limit) ==
    IF ~LoopCondition(limit) THEN null
    ELSE LET vals == Values(d, w, h, limit)
         IN  IF IsEmptyRecord(vals) THEN null
             ELSE LET enc == CHOOSE e \in Encodings(Bytes(vals), behaviour) : TRUE
                      nextLimit == NextLimit(limit)
                  IN  IF FixedCompressedFits(enc)
                      THEN [base64 |-> enc.compressedBase64,
                            type |-> "compressed", compression |-> "deflate"]
                      ELSE IF FixedRawFits(enc)
                      THEN [base64 |-> enc.rawBase64, type |-> "binary"]
                      ELSE IF AtFloor(nextLimit, limit) THEN null
                      ELSE FixedPayloadFrom(d, w, h, behaviour, nextLimit)

\* lines 150-176
prepareSignaturePayloadFixed(d, w, h, behaviour) ==
    FixedPayloadFrom(d, w, h, behaviour, DEFAULT_POINTS)

\* StrokeSets for the budget of 1800 characters: a record of 320 points fits
\* it, so only a StrokeSet of many segments makes the loop shrink
Repeated(segment, n) == [s \in 1..n |-> segment]

VariantStrokeSets ==
    { <<>>,
      <<Stroke(0, Start)>>,
      <<Stroke(MaxPoints, Start), Stroke(4, Start)>>,
      Repeated(Stroke(16, Start), ManySegments \div 3),
      Repeated(Stroke(2, Start), 2 * ManySegments) }

\* the parameterised variant called with maxPayloadChars = 1800
VariantInit ==
    /\ data \in VariantStrokeSets
    /\ \E surface \in Surfaces : width = surface.width /\ height = surface.height
    /\ maxPayloadChars = MAX_PAYLOAD_CHARS
    /\ pointsLimit = DEFAULT_POINTS
    /\ encoded = null
    /\ values = <<>>
    /\ bytes = <<>>
    /\ result = null
    /\ calls = <<>>
    /\ pc = IF LoopCondition(DEFAULT_POINTS) THEN "loop" ELSE "done"
    /\ pako \in PakoBehaviours
    /\ suspended = null
    /\ Standalone

VariantSpec == VariantInit /\ [][Next]_vars

(***************************************************************************)
(* The caller: handleSubmit of App.tsx (lines 124-233), with the handlers   *)
(* that set the state fields it reads.  The handler runs to its return      *)
(* without any other handler in between; its calls of                       *)
(* prepareSignaturePayload are the steps Encode .. GiveUp above.            *)
(***************************************************************************)
MAX_REQUEST_BYTES == 4096

\* the UTF-8 length of JSON.stringify(basePayload), lines 145-154: the token,
\* the session id and the two names are inputs; an empty basePayload is 75 bytes
BaseBytes == {150, 3444, 3840, 4200}

\* what padRef.current.toData() gives
SubmitStrokeSets ==
    { <<>>,
      <<Stroke(0, Start)>>,
      <<Stroke(MaxPoints, Start), Stroke(MaxPoints, Start)>>,
      Repeated(Stroke(2, Start), ManySegments \div 2) }

\* what padRef.current.getCanvasMeta() gives
SubmitSurfaces == { [width |-> 300, height |-> 150] }

\* the bytes JSON.stringify adds for one more member ,"key":"value" whose
\* value has n characters, none of them escaped or outside ASCII
Member(key, n) == 1 + (Len(key) + 2) + 1 + (n + 2)

\* lines 172-183 and 205-206: the UTF-8 length of JSON.stringify(payload)
MessageBytes(base, payload) ==
    IF payload.type = "compressed"
    THEN base + Member("signature_compressed", Len(payload.base64))
              + Member("compression", Len(payload.compression))
    ELSE base + Member("signature_binary", Len(payload.base64))

\* lines 186-190; ratio is payloadBytes / 4096, and the floor of
\* available / ratio is the integer quotient
AdjustedLimit(available, bytesNow) ==
    Max(200, (available * MAX_REQUEST_BYTES) \div bytesNow)

handlerLocals == <<rawData, canvasMeta, baseBytes, availableSignatureChars,
                   signaturePayload, payloadBytes>>

codec == <<data, width, height, maxPayloadChars, pointsLimit, encoded, values,
           bytes, result, calls, pc>>

\* no call of prepareSignaturePayload is open
NoCall ==
    /\ data = <<>>
    /\ width = 0
    /\ height = 0
    /\ maxPayloadChars = 0
    /\ pointsLimit = DEFAULT_POINTS
    /\ encoded = null
    /\ values = <<>>
    /\ bytes = <<>>
    /\ result = null
    /\ calls = <<>>
    /\ pc = "done"

SubmitInit ==
    /\ Mounted
    /\ tg \in BOOLEAN
    /\ NoCall
    /\ pako \in PakoBehaviours
    /\ suspended = null

\* lines 106-109; isEmpty is what the pad says
handleStrokeEnd ==
    /\ at = "idle"
    /\ \E isEmpty \in BOOLEAN : hasSigned' = ~isEmpty
    /\ UNCHANGED <<consentChecked, isSubmitting, tg, handlerLocals, sent, popup, at>>
    /\ UNCHANGED <<codec, pako, suspended>>

\* lines 101-104
handleClear ==
    /\ at = "idle"
    /\ hasSigned' = FALSE
    /\ UNCHANGED <<consentChecked, isSubmitting, tg, handlerLocals, sent, popup, at>>
    /\ UNCHANGED <<codec, pako, suspended>>

\* line 358
ConsentChange ==
    /\ at = "idle"
    /\ \E checked \in BOOLEAN : consentChecked' = checked
    /\ UNCHANGED <<hasSigned, isSubmitting, tg, handlerLocals, sent, popup, at>>
    /\ UNCHANGED <<codec, pako, suspended>>

\* the control that calls handleSubmit is disabled while isSubmitting
\* (lines 235, 342); the other two conjuncts of canSubmit are tested again by
\* the handler, lines 125-132
Clicked == at = "idle" /\ ~isSubmitting

\* the return of handleSubmit on a path that sends nothing: its locals and
\* the call it made are gone
Leave ==
    /\ at' = "idle"
    /\ rawData' = <<>>
    /\ canvasMeta' = null
    /\ baseBytes' = 0
    /\ availableSignatureChars' = 0
    /\ signaturePayload' = null
    /\ payloadBytes' = 0
    /\ data' = <<>>
    /\ width' = 0
    /\ height' = 0
    /\ maxPayloadChars' = 0
    /\ pointsLimit' = DEFAULT_POINTS
    /\ encoded' = null
    /\ values' = <<>>
    /\ bytes' = <<>>
    /\ result' = null
    /\ calls' = <<>>
    /\ pc' = "done"

\* lines 125-128
RefuseConsent ==
    /\ Clicked
    /\ ~consentChecked
    /\ popup' = 126
    /\ UNCHANGED <<consentChecked, hasSigned, isSubmitting, tg, handlerLocals, sent, at>>
    /\ UNCHANGED <<codec, pako, suspended>>

\* lines 129-132
RefuseUnsigned ==
    /\ Clicked
    /\ consentChecked
    /\ ~hasSigned
    /\ popup' = 130
    /\ UNCHANGED <<consentChecked, hasSigned, isSubmitting, tg, handlerLocals, sent, at>>
    /\ UNCHANGED <<codec, pako, suspended>>

\* lines 134-137: both reads go through padRef.current?.
Begin ==
    /\ Clicked
    /\ consentChecked
    /\ hasSigned
    /\ isSubmitting' = TRUE
    /\ \/ rawData' = <<>> /\ canvasMeta' = null
       \/ rawData' \in SubmitStrokeSets /\ canvasMeta' \in SubmitSurfaces
    /\ at' = "read"
    /\ UNCHANGED <<consentChecked, hasSigned, tg, baseBytes, availableSignatureChars,
                   signaturePayload, payloadBytes, sent, popup>>
    /\ UNCHANGED <<codec, pako, suspended>>

\* lines 139-142
NoPad ==
    /\ at = "read"
    /\ canvasMeta = null
    /\ isSubmitting' = FALSE
    /\ Leave
    /\ UNCHANGED <<consentChecked, hasSigned, tg, sent, popup>>
    /\ UNCHANGED <<pako, suspended>>

\* the entry of prepareSignaturePayload(d, w, h, budget), lines 240-246
Enter(d, w, h, budget) ==
    /\ data' = d
    /\ width' = w
    /\ height' = h
    /\ maxPayloadChars' = budget
    /\ pointsLimit' = DEFAULT_POINTS
    /\ encoded' = null
    /\ values' = <<>>
    /\ bytes' = <<>>
    /\ result' = null
    /\ calls' = <<>>
    /\ pc' = IF LoopCondition(DEFAULT_POINTS) THEN "loop" ELSE "done"

\* lines 144-162
FirstCall ==
    /\ at = "read"
    /\ canvasMeta # null
    /\ baseBytes' \in BaseBytes
    /\ availableSignatureChars' = Max(256, MAX_REQUEST_BYTES - baseBytes')
    /\ Enter(rawData, canvasMeta.width, canvasMeta.height, availableSignatureChars')
    /\ at' = "first"
    /\ UNCHANGED <<consentChecked, hasSigned, isSubmitting, tg, rawData, canvasMeta,
                   signaturePayload, payloadBytes, sent, popup>>
    /\ UNCHANGED <<pako, suspended>>

\* lines 163-170
FirstNull ==
    /\ at = "first"
    /\ pc = "done"
    /\ result = null
    /\ popup' = 164
    /\ isSubmitting' = FALSE
    /\ Leave
    /\ UNCHANGED <<consentChecked, hasSigned, tg, sent>>
    /\ UNCHANGED <<pako, suspended>>

\* lines 157 and 172-183
Assemble ==
    /\ at = "first"
    /\ pc = "done"
    /\ result # null
    /\ signaturePayload' = result
    /\ payloadBytes' = MessageBytes(baseBytes, result)
    /\ at' = "assembled"
    /\ UNCHANGED <<consentChecked, hasSigned, isSubmitting, tg, rawData, canvasMeta,
                   baseBytes, availableSignatureChars, sent, popup>>
    /\ UNCHANGED <<codec, pako, suspended>>

\* lines 185-196
SecondCall ==
    /\ at = "assembled"
    /\ payloadBytes > MAX_REQUEST_BYTES
    /\ Enter(rawData, canvasMeta.width, canvasMeta.height,
             AdjustedLimit(availableSignatureChars, payloadBytes))
    /\ at' = "second"
    /\ UNCHANGED <<consentChecked, hasSigned, isSubmitting, tg, handlerLocals, sent, popup>>
    /\ UNCHANGED <<pako, suspended>>

\* lines 191 and 197-204
SecondNull ==
    /\ at = "second"
    /\ pc = "done"
    /\ result = null
    /\ popup' = 198
    /\ isSubmitting' = FALSE
    /\ Leave
    /\ UNCHANGED <<consentChecked, hasSigned, tg, sent>>
    /\ UNCHANGED <<pako, suspended>>

\* lines 191 and 205-206
Reassemble ==
    /\ at = "second"
    /\ pc = "done"
    /\ result # null
    /\ signaturePayload' = result
    /\ payloadBytes' = MessageBytes(baseBytes, result)
    /\ at' = "reassembled"
    /\ UNCHANGED <<consentChecked, hasSigned, isSubmitting, tg, rawData, canvasMeta,
                   baseBytes, availableSignatureChars, sent, popup>>
    /\ UNCHANGED <<codec, pako, suspended>>

\* StillOverLimit with the test of line 207 left out
StillOverLimitUntested == FALSE

\* line 207
StillOverLimit == payloadBytes > MAX_REQUEST_BYTES

\* lines 207-214
StillOver ==
    /\ at = "reassembled"
    /\ StillOverLimit
    /\ popup' = 208
    /\ isSubmitting' = FALSE
    /\ Leave
    /\ UNCHANGED <<consentChecked, hasSigned, tg, sent>>
    /\ UNCHANGED <<pako, suspended>>

\* line 217 is reached: past line 185 with its test false, or past line 207
ReachedTry ==
    \/ at = "assembled" /\ ~(payloadBytes > MAX_REQUEST_BYTES)
    \/ at = "reassembled" /\ ~StillOverLimit

\* lines 217-222; the message is JSON.stringify(payload)
Send ==
    /\ ReachedTry
    /\ tg
    /\ sent' = Append(sent, MessageBytes(baseBytes, signaturePayload))
    /\ at' = "idle"
    /\ UNCHANGED <<consentChecked, hasSigned, isSubmitting, tg, handlerLocals, popup>>
    /\ UNCHANGED <<codec, pako, suspended>>

\* lines 219 and 228-232: tg.sendData throws
SendThrows ==
    /\ ReachedTry
    /\ tg
    /\ popup' = 230
    /\ isSubmitting' = FALSE
    /\ Leave
    /\ UNCHANGED <<consentChecked, hasSigned, tg, sent>>
    /\ UNCHANGED <<pako, suspended>>

\* NoHost without the setState of line 226
NoHostKeepsFlag ==
    /\ ReachedTry
    /\ ~tg
    /\ popup' = 225
    /\ Leave
    /\ UNCHANGED <<consentChecked, hasSigned, isSubmitting, tg, sent>>
    /\ UNCHANGED <<pako, suspended>>

\* lines 223-227
NoHost ==
    /\ ReachedTry
    /\ ~tg
    /\ popup' = 225
    /\ isSubmitting' = FALSE
    /\ Leave
    /\ UNCHANGED <<consentChecked, hasSigned, tg, sent>>
    /\ UNCHANGED <<pako, suspended>>

SubmitNext ==
    \/ handleStrokeEnd
    \/ handleClear
    \/ ConsentChange
    \/ RefuseConsent
    \/ RefuseUnsigned
    \/ Begin
    \/ NoPad
    \/ FirstCall
    \/ FirstNull
    \/ Assemble
    \/ SecondCall
    \/ SecondNull
    \/ Reassemble
    \/ StillOver
    \/ Send
    \/ SendThrows
    \/ NoHost
    \/ Encode
    \/ ReturnEmpty
    \/ ReturnCompressed
    \/ ReturnBinary
    \/ Shrink
    \/ GiveUp

SubmitSpec == SubmitInit /\ [][SubmitNext]_vars

TypeOK ==
    /\ data \in StrokeSets
    /\ pointsLimit \in MIN_POINTS..DEFAULT_POINTS
    /\ pc \in {"loop", "encoded", "done"}
    /\ Len(calls) <= MaxCalls

\* the cap on recorded calls never stops the loop
CapNotReached == pc = "loop" => Len(calls) < MaxCalls

(***************************************************************************)
(* Vocabulary of the properties.                                           *)
(***************************************************************************)
Returned == pc = "done"

Attempted == calls # <<>>

\* the k-th value pair of a quantized record
Pair(vals, k) == <<vals[2 * k - 1], vals[2 * k]>>

NumPairs(vals) == Len(vals) \div 2

IsTerminator(vals, k) == Pair(vals, k) = <<SENTINEL, SENTINEL>>

\* the positions of the terminator pairs, in order
Terminators(vals) ==
    SelectSeq([k \in 1..NumPairs(vals) |-> k], LAMBDA k : IsTerminator(vals, k))

\* the pairs a consumer scanning for terminators attributes to segment s
SegmentPairs(vals, s) ==
    LET t == Terminators(vals)
        lo == IF s = 1 THEN 1 ELSE t[s - 1] + 1
    IN  { Pair(vals, k) : k \in lo..(t[s] - 1) }

QuantizedPoint(point) == <<Quantize(point.x, width), Quantize(point.y, height)>>

AllSegmentsEmpty(strokes) == \A s \in 1..Len(strokes) : Len(strokes[s].points) = 0

\* the stride of the last attempt
LastStep == Step(data, calls[Len(calls)])

(***************************************************************************)
(* C1.  Budget invariant: a returned payload's base64 text is no longer    *)
(* than the caller's maxPayloadChars.                                      *)
(***************************************************************************)
BudgetInvariant ==
    (Returned /\ result # null) => Len(result.base64) <= maxPayloadChars

\* a payload that fills a budget below the default one exactly, found after
\* the limit was shrunk
BudgetWitness ==
    /\ Returned
    /\ result # null
    /\ Len(result.base64) = maxPayloadChars
    /\ maxPayloadChars < DEFAULT_MAX_PAYLOAD_CHARS

(***************************************************************************)
(* C2.  Emptiness invariant, as claimed: a StrokeSet of one or more         *)
(* segments, all without points, yields null for every budget.  The code   *)
(* tests for exactly one terminator pair (line 209), so two empty segments *)
(* are encoded and returned.                                               *)
(***************************************************************************)
EmptinessInvariant ==
    (Returned /\ Len(data) >= 1 /\ AllSegmentsEmpty(data)) => result = null

(***************************************************************************)
(* C3.  Compression preference: an attempt whose compressed encoding       *)
(* exists and whose two encodings both fit the budget returns the          *)
(* compressed one.                                                         *)
(***************************************************************************)
BothFit ==
    /\ pc = "encoded"
    /\ encoded # null
    /\ encoded.compressedBase64 # nullString
    /\ Len(encoded.compressedBase64) <= maxPayloadChars
    /\ Len(encoded.rawBase64) <= maxPayloadChars

CompressionPreference ==
    [][BothFit => (pc' = "done" /\ result' # null /\ result'.type = "compressed")]_vars

\* a compressed payload returned although the raw text would have fitted too
CompressionPreferenceWitness ==
    /\ Returned
    /\ result # null
    /\ result.type = "compressed"
    /\ Len(encoded.rawBase64) > 0
    /\ Len(encoded.rawBase64) <= maxPayloadChars
    /\ Len(encoded.rawBase64) >= Len(encoded.compressedBase64)

(***************************************************************************)
(* C4.  Terminator count: a quantized record that is not EMPTY holds as    *)
(* many (65535,65535) pairs as the StrokeSet has segments.                 *)
(***************************************************************************)
TerminatorCount ==
    (Attempted /\ ~IsEmptyRecord(values))
        => Len(Terminators(values)) = Len(data)

\* two segments, one of them empty, and a retained point clamped to
\* MAX_COORD in both coordinates
TerminatorCountWitness ==
    /\ Attempted
    /\ encoded # null
    /\ Len(data) = 2
    /\ \E s \in 1..2 : Len(data[s].points) = 0
    /\ \E k \in 1..NumPairs(values) : Pair(values, k) = <<MAX_COORD, MAX_COORD>>

(***************************************************************************)
(* C5.  Segment endpoint preservation: at every stride, the part of the    *)
(* record belonging to a segment with points holds the quantized first     *)
(* point and the quantized last point of the segment.                      *)
(***************************************************************************)
EndpointPreservation ==
    (Attempted /\ encoded # null) =>
        /\ Len(Terminators(values)) = Len(data)
        /\ \A s \in 1..Len(data) :
              LET points == data[s].points
              IN  Len(points) > 0 =>
                    /\ QuantizedPoint(points[1]) \in SegmentPairs(values, s)
                    /\ QuantizedPoint(points[Len(points)]) \in SegmentPairs(values, s)

\* a stride above 1 and a segment whose last index the stride alone would skip
EndpointPreservationWitness ==
    /\ pc = "encoded"
    /\ encoded # null
    /\ LastStep >= 2
    /\ \E s \in 1..Len(data) :
          /\ Len(data[s].points) > 2
          /\ (Len(data[s].points) - 1) % LastStep # 0

(***************************************************************************)
(* C6.  Termination: every call returns.                                   *)
(***************************************************************************)
Termination == <>Returned

\* a call that returned null after going down to the smallest limit
TerminationWitness ==
    /\ Returned
    /\ result = null
    /\ encoded # null
    /\ calls[Len(calls)] = MIN_POINTS

(***************************************************************************)
(* C7.  Iteration bound.  LogBound is                                      *)
(* ceil(log(MIN_POINTS / DEFAULT_POINTS) / log(POINTS_REDUCTION_FACTOR)),  *)
(* the least k with DEFAULT_POINTS * factor^k <= MIN_POINTS; it is 8.      *)
(***************************************************************************)
ShrunkBelowFloor(k) ==
    DEFAULT_POINTS * POINTS_REDUCTION_NUM ^ k <= MIN_POINTS * POINTS_REDUCTION_DEN ^ k

LogBound ==
    CHOOSE k \in 0..MaxCalls :
        ShrunkBelowFloor(k) /\ \A j \in 0..(k - 1) : ~ShrunkBelowFloor(j)

\* C7 as claimed: at most LogBound (8) calls of the quantizer
IterationBoundClaimed == LogBound = 8 /\ Len(calls) <= LogBound

\* C7 amended: at most LogBound + 1 (9) calls of the quantizer, that is at
\* most LogBound shrinks of the limit
IterationBound == LogBound = 8 /\ Len(calls) <= LogBound + 1

\* the ninth call
IterationBoundWitness == Len(calls) = LogBound + 1 /\ pc = "encoded"

(***************************************************************************)
(* C8.  Monotonic shrink: the limits passed to the quantizer in one call   *)
(* never increase and are all at least MIN_POINTS.                         *)
(***************************************************************************)
MonotonicShrink ==
    /\ \A i \in 1..Len(calls) : calls[i] >= MIN_POINTS
    /\ \A i \in 1..Len(calls) : \A j \in i..Len(calls) : calls[i] >= calls[j]

\* the limit was shrunk at least twice
MonotonicShrinkWitness ==
    Len(calls) >= 3 /\ calls[3] < calls[2] /\ calls[2] < calls[1]

(***************************************************************************)
(* C9.  EMPTY is terminal: once the quantizer has returned EMPTY, the call *)
(* returns null at once and calls the quantizer no more.                   *)
(***************************************************************************)
EmptyIsTerminal ==
    [][(Attempted /\ encoded = null)
          => (pc' = "done" /\ result' = null /\ calls' = calls)]_vars

\* EMPTY returned under the default budget: one call, then null
EmptyIsTerminalWitness ==
    /\ Returned
    /\ encoded = null
    /\ result = null
    /\ calls = <<DEFAULT_POINTS>>
    /\ maxPayloadChars = DEFAULT_MAX_PAYLOAD_CHARS

(***************************************************************************)
(* C10.  CompressionUnavailable is non-fatal, as claimed: an attempt whose *)
(* compression failed returns the raw text as "binary" if it fits and      *)
(* shrinks the limit otherwise.  The code tests the raw text for           *)
(* truthiness first (line 256), so the empty raw text of a StrokeSet        *)
(* without segments is never returned.                                     *)
(***************************************************************************)
CompressionFailed ==
    /\ pc = "encoded"
    /\ encoded # null
    /\ encoded.compressedBase64 = nullString

CompressionUnavailable ==
    [][CompressionFailed =>
          IF Len(encoded.rawBase64) <= maxPayloadChars
          THEN /\ pc' = "done"
               /\ result' = [base64 |-> encoded.rawBase64, type |-> "binary"]
          ELSE /\ result' = null
               /\ calls' = calls
               /\ \/ pc' = "loop" /\ pointsLimit' = NextLimit(pointsLimit)
                  \/ pc' = "done" /\ NextLimit(pointsLimit) = pointsLimit]_vars

(***************************************************************************)
(* C11.  BudgetExceeded, as claimed: for an input that is not EMPTY, null  *)
(* is returned exactly when neither encoding fits at any limit down to     *)
(* MIN_POINTS; so an attempt where an encoding fits returns a payload, and *)
(* an attempt where none fits returns null only at the limit MIN_POINTS.   *)
(* The code does not accept a raw text of length 0 (line 256), so for a    *)
(* StrokeSet without segments it returns null although the raw text fits.  *)
(***************************************************************************)
NotEmptyAttempt == pc = "encoded" /\ encoded # null

CompressedFitsByLength ==
    /\ encoded.compressedBase64 # nullString
    /\ Len(encoded.compressedBase64) <= maxPayloadChars

RawFitsByLength == Len(encoded.rawBase64) <= maxPayloadChars

BudgetExceeded ==
    [][NotEmptyAttempt =>
          IF CompressedFitsByLength \/ RawFitsByLength
          THEN pc' = "done" /\ result' # null
          ELSE /\ result' = null
               /\ pc' = "done" => pointsLimit = MIN_POINTS
               /\ pc' = "loop" => pointsLimit' < pointsLimit]_vars

(***************************************************************************)
(* C12.  Raw acceptance, as claimed: an attempt whose compressed encoding  *)
(* is absent or too long and whose raw text is no longer than the budget,  *)
(* a raw text of length 0 included, returns the raw text as "binary".      *)
(* Line 256 tests the raw text for truthiness, and "" is falsy.            *)
(***************************************************************************)
RawAcceptance ==
    [][(NotEmptyAttempt /\ ~CompressedFitsByLength /\ RawFitsByLength)
          => /\ pc' = "done"
             /\ result' = [base64 |-> encoded.rawBase64, type |-> "binary"]]_vars

(***************************************************************************)
(* C13.  Result well-formedness: a returned payload has type "compressed"  *)
(* or "binary", and it has a compression field, equal to "deflate",        *)
(* exactly when its type is "compressed".                                  *)
(***************************************************************************)
WellFormed(payload) ==
    /\ payload.type \in {"compressed", "binary"}
    /\ ("compression" \in DOMAIN payload) <=> (payload.type = "compressed")
    /\ ("compression" \in DOMAIN payload) => payload.compression = "deflate"
    /\ "base64" \in DOMAIN payload

ResultWellFormed == (Returned /\ result # null) => WellFormed(result)

\* both kinds of payload are returned; each witness state holds one of them
\* and the other kind is reachable for the same input under another outcome
\* of the compression
ResultWellFormedWitness ==
    /\ Returned
    /\ result # null
    /\ result.type = "compressed"
    /\ result.compression = "deflate"
    /\ Len(calls) > 1

(***************************************************************************)
(* C14.  Coordinate range: whatever the coordinates of a retained point,   *)
(* the two values emitted for it lie in 0..65534, so that 65535 occurs in  *)
(* the record only in terminator pairs.                                    *)
(***************************************************************************)
CoordinateRange ==
    Attempted =>
        \A k \in 1..NumPairs(values) :
            \/ IsTerminator(values, k)
            \/ /\ values[2 * k - 1] \in 0..MAX_COORD
               /\ values[2 * k] \in 0..MAX_COORD

\* a record holding a point left of and above the surface, clamped to
\* (0, 0), and a point right of and below it, clamped to MAX_COORD
CoordinateRangeWitness ==
    /\ Attempted
    /\ \E s \in 1..Len(data) : \E i \in 1..Len(data[s].points) :
          data[s].points[i].x < 0 /\ data[s].points[i].y < 0
    /\ \E s \in 1..Len(data) : \E i \in 1..Len(data[s].points) :
          data[s].points[i].x > width /\ data[s].points[i].y > height
    /\ \E k \in 1..NumPairs(values) : Pair(values, k) = <<0, 0>>
    /\ \E k \in 1..NumPairs(values) : Pair(values, k) = <<MAX_COORD, MAX_COORD>>

(***************************************************************************)
(* C15.  Determinism: two calls with the same StrokeSet, surface and       *)
(* budget, and a compressor that behaves the same way for both, return the *)
(* same result: both null, or payloads equal in type, compression and      *)
(* content.                                                                *)
(***************************************************************************)
SameArguments ==
    /\ suspended.data = data
    /\ suspended.width = width
    /\ suspended.height = height
    /\ suspended.maxPayloadChars = maxPayloadChars

BothReturned == suspended # null /\ Returned /\ suspended.pc = "done"

Determinism ==
    (BothReturned /\ SameArguments) => result = suspended.result

\* two calls with the same arguments have both returned a payload that took
\* more than one attempt
DeterminismWitness ==
    /\ BothReturned
    /\ SameArguments
    /\ result # null
    /\ Len(calls) > 1
    /\ Len(suspended.calls) > 1

(***************************************************************************)
(* C16.  Isolation: when two calls are interleaved in any way, each        *)
(* returns what it returns when it runs alone.                             *)
(***************************************************************************)
Isolation ==
    suspended # null =>
        /\ Returned =>
              result = prepareSignaturePayload(data, width, height,
                                               maxPayloadChars, pako)
        /\ suspended.pc = "done" =>
              suspended.result =
                  prepareSignaturePayload(suspended.data, suspended.width,
                                          suspended.height,
                                          suspended.maxPayloadChars, pako)

\* a call has returned a payload after several attempts while a call with
\* another StrokeSet is suspended between two of its attempts
IsolationWitness ==
    /\ suspended # null
    /\ Returned
    /\ result # null
    /\ Len(calls) > 1
    /\ suspended.pc = "encoded"
    /\ Len(suspended.calls) > 1
    /\ suspended.data # data

(***************************************************************************)
(* C17.  Decimation rule: with stride = max(1, ceil(totalPoints /          *)
(* maxPoints)), the points of a segment of n points that are kept are      *)
(* exactly those of index i in 0..n-1 with i = 0, i = n - 1 or             *)
(* i mod stride = 0.  The record is compared with that set: the pairs of   *)
(* each segment are the quantized points of the set, and as many.          *)
(***************************************************************************)
\* the least q >= 1 with total <= q * target
ClaimedStride(total, target) ==
    IF total <= target THEN 1
    ELSE CHOOSE q \in 1..total : (q - 1) * target < total /\ total <= q * target

RetainedIndices(n, stride) ==
    { i \in 0..(n - 1) : i = 0 \/ i = n - 1 \/ i % stride = 0 }

\* the number of pairs before the s-th terminator and after the one before it
SegmentLength(vals, s) ==
    LET t == Terminators(vals)
    IN  t[s] - (IF s = 1 THEN 1 ELSE t[s - 1] + 1)

DecimationRule ==
    Attempted =>
        LET stride == ClaimedStride(totalPoints(data), calls[Len(calls)])
        IN  /\ Len(Terminators(values)) = Len(data)
            /\ \A s \in 1..Len(data) :
                  LET points == data[s].points
                      retained == RetainedIndices(Len(points), stride)
                  IN  /\ SegmentLength(values, s) = Cardinality(retained)
                      /\ SegmentPairs(values, s)
                            = { QuantizedPoint(points[i + 1]) : i \in retained }

\* a record decimated with a stride of 3 that keeps a last point whose index
\* is not a multiple of the stride
DecimationRuleWitness ==
    /\ Attempted
    /\ ClaimedStride(totalPoints(data), calls[Len(calls)]) = 3
    /\ \E s \in 1..Len(data) :
          /\ (Len(data[s].points) - 1) % 3 # 0
          /\ SegmentLength(values, s) < Len(data[s].points)
          /\ SegmentLength(values, s) > 2

(***************************************************************************)
(* C18.  First fit at the highest density: a returned payload was made at  *)
(* the largest limit of 320, 240, 180, 135, 101, 75, 56, 42, 40 at which   *)
(* an encoding is no longer than the budget; at every larger limit neither *)
(* the compressed nor the raw text was short enough.  Stated for a         *)
(* compressor that is a function of its input, so that the encodings of    *)
(* the earlier attempts can be computed again.                             *)
(***************************************************************************)
ShrinkSequence == <<320, 240, 180, 135, 101, 75, 56, 42, 40>>

EncodingAt(limit) ==
    CHOOSE e \in Encodings(Bytes(Values(data, width, height, limit)), pako) : TRUE

FitsAt(limit) ==
    LET e == EncodingAt(limit)
    IN  \/ e.compressedBase64 # nullString
            /\ Len(e.compressedBase64) <= maxPayloadChars
        \/ Len(e.rawBase64) <= maxPayloadChars

FirstFit ==
    (Returned /\ result # null) =>
        LET n == Len(calls)
        IN  /\ n <= Len(ShrinkSequence)
            /\ calls = SubSeq(ShrinkSequence, 1, n)
            /\ encoded = EncodingAt(calls[n])
            /\ result.base64 \in {encoded.compressedBase64, encoded.rawBase64}
            /\ FitsAt(calls[n])
            /\ \A i \in 1..(n - 1) : ~FitsAt(calls[i])

\* a raw payload returned at the third limit or later
FirstFitWitness ==
    /\ pako \in PakoBehaviours
    /\ Returned
    /\ result # null
    /\ result.type = "binary"
    /\ Len(calls) >= 3
    /\ ~FitsAt(calls[Len(calls) - 1])

(***************************************************************************)
(* C19.  Order preservation: the record holds the segments in the order of *)
(* the StrokeSet, each as its kept points in increasing index order        *)
(* followed at once by its terminator pair, so that the terminators give   *)
(* back the segment boundaries.                                            *)
(***************************************************************************)
\* the pairs before the s-th terminator and after the one before it, in order
SegmentSequence(vals, s) ==
    LET t == Terminators(vals)
        lo == IF s = 1 THEN 1 ELSE t[s - 1] + 1
    IN  [k \in 1..(t[s] - lo) |-> Pair(vals, lo + k - 1)]

\* the 0-based indices i of a segment's points with keepPoint, ascending
KeptAscending(segment) ==
    SelectSeq([i \in 1..Len(segment.points) |-> i - 1],
              LAMBDA index : keepPoint(index, Len(segment.points), LastStep))

OrderPreservation ==
    Attempted =>
        /\ Len(Terminators(values)) = Len(data)
        /\ NumPairs(values) > 0 => IsTerminator(values, NumPairs(values))
        /\ \A s \in 1..Len(data) :
              LET kept == KeptAscending(data[s])
              IN  SegmentSequence(values, s)
                    = [k \in 1..Len(kept) |->
                         QuantizedPoint(data[s].points[kept[k] + 1])]

\* a decimated record of two segments of different lengths, the longer first
OrderPreservationWitness ==
    /\ Attempted
    /\ Len(data) = 2
    /\ Len(data[1].points) > Len(data[2].points)
    /\ Len(data[2].points) > 1
    /\ LastStep > 1
    /\ SegmentLength(values, 1) > SegmentLength(values, 2)

(***************************************************************************)
(* C20.  Big-endian packing: the packed record has two bytes per value,    *)
(* the high byte (v >> 8) & 0xff first and the low byte v & 0xff second,   *)
(* and 256 * high + low gives back v, for the values of every record and   *)
(* for every v in 0..65535.                                                *)
(***************************************************************************)
Unpacked(packed) ==
    [k \in 1..(Len(packed) \div 2) |-> 256 * packed[2 * k - 1] + packed[2 * k]]

IsByte(b) == b \in 0..255

PackingRoundTrip ==
    /\ (Attempted /\ ~IsEmptyRecord(values)) =>
          /\ Len(bytes) = 2 * Len(values)
          /\ \A b \in 1..Len(bytes) : IsByte(bytes[b])
          /\ Unpacked(bytes) = values
    /\ (~Attempted /\ data = <<>>) =>
          \A v \in 0..SENTINEL :
              LET packed == Bytes(<<v>>)
              IN  /\ Len(packed) = 2
                  /\ IsByte(packed[1]) /\ IsByte(packed[2])
                  /\ packed[1] = v \div 256
                  /\ 256 * packed[1] + packed[2] = v

\* a packed record with a value whose two bytes differ and are not 0 or 255
PackingRoundTripWitness ==
    /\ Attempted
    /\ ~IsEmptyRecord(values)
    /\ \E k \in 1..Len(values) :
          /\ bytes[2 * k - 1] \notin {0, 255}
          /\ bytes[2 * k] \notin {0, 255}
          /\ bytes[2 * k - 1] # bytes[2 * k]
          /\ values[k] = 256 * bytes[2 * k - 1] + bytes[2 * k]

(***************************************************************************)
(* C21.  Quantization error: for a kept point whose x lies in 0..width,    *)
(* the value qx of the record, mapped back as qx / 65534 * width, differs  *)
(* from x by at most width / 65534; likewise for y and height.  Stated     *)
(* without division: |qx * width - x * 65534| <= width.                    *)
(***************************************************************************)
Abs(n) == IF n < 0 THEN -n ELSE n

WithinError(q, c, dim) == Abs(q * dim - c * MAX_COORD) <= dim

QuantizationError ==
    Attempted =>
        \A s \in 1..Len(data) :
            LET kept == KeptAscending(data[s])
                pairs == SegmentSequence(values, s)
            IN  \A k \in 1..Len(kept) :
                    LET point == data[s].points[kept[k] + 1]
                    IN  /\ point.x \in 0..width
                          => WithinError(pairs[k][1], point.x, width)
                        /\ point.y \in 0..height
                          => WithinError(pairs[k][2], point.y, height)

\* a kept point inside the surface whose two values are both inexact
QuantizationErrorWitness ==
    /\ Attempted
    /\ \E s \in 1..Len(data) :
          \E k \in 1..Len(KeptAscending(data[s])) :
              LET point == data[s].points[KeptAscending(data[s])[k] + 1]
                  pair == SegmentSequence(values, s)[k]
              IN  /\ point.x \in 1..(width - 1)
                  /\ point.y \in 1..(height - 1)
                  /\ pair[1] * width # point.x * MAX_COORD
                  /\ pair[2] * height # point.y * MAX_COORD

(***************************************************************************)
(* C22.  Raw size never grows while shrinking: from one attempt of a call  *)
(* to the next, no segment keeps more points, so the record and its packed *)
(* bytes, 4 * (kept points + segments), do not get longer.                 *)
(***************************************************************************)
NextAttempt == pc = "loop" /\ Attempted /\ pc' = "encoded"

RawSizeNeverGrows ==
    [][NextAttempt =>
          /\ Len(values') <= Len(values)
          /\ Len(bytes') <= Len(bytes)
          /\ Len(bytes') = 4 * NumPairs(values')
          /\ \A s \in 1..Len(data) :
                SegmentLength(values', s) <= SegmentLength(values, s)]_vars

\* an attempt whose record is shorter than the record of the attempt before
RawSizeNeverGrowsWitness ==
    /\ Len(calls) >= 2
    /\ pc = "encoded"
    /\ Len(values)
         < Len(Values(data, width, height, calls[Len(calls) - 1]))
    /\ Len(bytes) = 4 * NumPairs(values)

(***************************************************************************)
(* C23.  Point budget overshoot: for a StrokeSet of S segments and a       *)
(* maxPoints >= 1 the record holds at most maxPoints + 2 * S points.       *)
(* Checked for the limits the call uses and, before the first attempt, for *)
(* every maxPoints in 1..MaxTarget.                                        *)
(***************************************************************************)
\* the pairs of a record that are not terminator pairs
RetainedPoints(vals) == NumPairs(vals) - Len(Terminators(vals))

PointBudget ==
    /\ Attempted =>
          RetainedPoints(values) <= calls[Len(calls)] + 2 * Len(data)
    /\ ~Attempted =>
          \A target \in 1..MaxTarget :
              RetainedPoints(Values(data, width, height, target))
                <= target + 2 * Len(data)

\* a record that holds more points than the limit of its attempt
PointBudgetWitness ==
    /\ Attempted
    /\ RetainedPoints(values) > calls[Len(calls)]
    /\ LastStep > 1

(***************************************************************************)
(* C24.  Variant equivalence: for every StrokeSet and surface the          *)
(* parameterised prepareSignaturePayload called with maxPayloadChars =     *)
(* 1800 returns what the fixed-budget variant returns.                     *)
(***************************************************************************)
VariantEquivalence ==
    (Returned /\ maxPayloadChars = MAX_PAYLOAD_CHARS) =>
        result = prepareSignaturePayloadFixed(data, width, height, pako)

\* both variants return a payload found after the limit was shrunk
VariantEquivalenceWitness ==
    /\ Returned
    /\ maxPayloadChars = MAX_PAYLOAD_CHARS
    /\ result # null
    /\ Len(calls) >= 2
    /\ result = prepareSignaturePayloadFixed(data, width, height, pako)

(***************************************************************************)
(* C25: send guard.  Whenever handleSubmit gives a message to tg.sendData,  *)
(* consentChecked and hasSigned are both true, the last negotiation call    *)
(* returned a payload and that payload is the one in the message, and the   *)
(* UTF-8 byte length of the message is at most MAX_REQUEST_BYTES (4096).    *)
(***************************************************************************)
Sends == sent' # sent

SendGuard ==
    [][Sends =>
          /\ consentChecked
          /\ hasSigned
          /\ Returned
          /\ result # null
          /\ signaturePayload = result
          /\ sent' = Append(sent, MessageBytes(baseBytes, signaturePayload))
          /\ sent'[Len(sent')] <= MAX_REQUEST_BYTES]_vars

\* a message was sent after the second negotiation, whose budget was below
\* the first one's
SendGuardWitness ==
    /\ sent # <<>>
    /\ at = "idle"
    /\ Len(calls) >= 2
    /\ maxPayloadChars < availableSignatureChars
    /\ sent[Len(sent)] = payloadBytes

(***************************************************************************)
(* C26: submit flag recovery.  When handleSubmit is not running and no      *)
(* message has been given to tg.sendData, isSubmitting is false: every      *)
(* execution that ends without a successful send (a refusal, missing pad    *)
(* data, a null negotiation on the first or second call, a message still    *)
(* over 4096 bytes, no Telegram host, sendData throwing) has reset it.      *)
(* After a successful send the control stays disabled and handleSubmit is   *)
(* not executed again.                                                      *)
(***************************************************************************)
FlagRecovery == (at = "idle" /\ sent = <<>>) => ~isSubmitting

\* handleSubmit has returned after its second negotiation call gave null
FlagRecoveryWitness ==
    /\ at = "idle"
    /\ sent = <<>>
    /\ popup = 198
    /\ ~isSubmitting
    /\ consentChecked
    /\ hasSigned

====
